---- MODULE Spec2Model ----
(***************************************************************************)
(* Trading core of finora: OrderService (trading/services.py), the         *)
(* MatchingEngine (trading/matching_engine.py) and the order endpoints of  *)
(* trading/views.py, over two spot pairs, BTCUSDT and ETHUSDT.             *)
(*                                                                         *)
(* Amounts are integers: one unit is the smallest stored amount of the     *)
(* DecimalField columns.  An order's id and its created_at are its index   *)
(* in the Order table.  The stored tables are orders, wallets, trades and  *)
(* transactions; resp is what the last request computed in memory: its     *)
(* response (kind, id of the order, exception of place_order/cancel_order  *)
(* in err and of execute_order in matchErr), the fills its match applied   *)
(* inside the match transaction, the tables as that transaction saw them   *)
(* when it ended (tx), the wallets before the request (pre), for a cancel  *)
(* the order the request before it placed (prev), and for a submit the     *)
(* time_in_force its body named.  feed is what the two generator commands  *)
(* and one OrderBookConsumer socket work on: the OrderBook and MarketData   *)
(* rows of each pair, the position of the order-book generator, and the    *)
(* socket's channel (queue) and the frames sent to its client.  procs holds *)
(* the requests that are in flight when requests run concurrently: the     *)
(* position of each and the objects it holds in memory, and, of a submit   *)
(* that has returned, the fills its match applied and the orders whose     *)
(* matches ran while its own did (overlap).                                *)
(***************************************************************************)
EXTENDS Integers, Sequences, FiniteSets, TLC

MaxOrders == 3
MaxQty == 2
MaxPrice == 2
InitQuote == 4
InitBase == 2

Users == {"u1", "u2"}
Currencies == {"BTC", "ETH", "USDT"}
TradingPairs == {"BTCUSDT", "ETHUSDT"}

\* TradingPair.base_currency and TradingPair.quote_currency of the two pairs
base_currency(trading_pair) == IF trading_pair = "BTCUSDT" THEN "BTC" ELSE "ETH"

quote_currency(trading_pair) == "USDT"

\* TradingPair.maker_fee and TradingPair.taker_fee, both 0.001 by default,
\* as numerators over FeeScale
FeeScale == 1000

maker_fee(trading_pair) == 1

taker_fee(trading_pair) == 1
OrderSides == {"buy", "sell"}
OrderStatus == {"pending", "partial_filled", "filled", "cancelled", "rejected"}
LiveStatus == {"pending", "partial_filled"}

\* price = None (the column is nullable; "if price" is false for it)
NoPrice == 0
Quantities == 1..MaxQty
Prices == 1..MaxPrice

\* the request bodies of POST /trading/orders that pass OrderSerializer:
\* limit orders with and without a price, market orders (price unused),
\* stop orders
OrderInputs ==
    [trading_pair : {"BTCUSDT"}, order_type : {"limit"}, side : OrderSides,
     quantity : Quantities, price : Prices \cup {NoPrice}]
    \cup [trading_pair : {"BTCUSDT"}, order_type : {"market"}, side : OrderSides,
          quantity : Quantities, price : {NoPrice}]
    \cup [trading_pair : {"BTCUSDT"}, order_type : {"stop"}, side : OrderSides,
          quantity : {1}, price : {1}]

VARIABLES orders, wallets, trades, transactions, resp, procs, feed

vars == <<orders, wallets, trades, transactions, resp, procs, feed>>

Min(a, b) == IF a <= b THEN a ELSE b

\* the requests that may be in flight at once (two server threads)
Procs == {"r1", "r2"}

\* a thread that serves no request and keeps no result
Idle == [pc |-> "idle"]

\* the OrderBook and MarketData tables of no tick yet (each pair's rows are
\* named by the number of the write that left them), the order-book
\* generator between two ticks, and no socket connected
NoFeed ==
    [order_book |-> [p \in TradingPairs |-> 0],
     market_data |-> [p \in TradingPairs |-> 0],
     pc |-> "idle", pair |-> "none",
     consumer |-> [pc |-> "closed", pair |-> "none", joined |-> 0,
                   queue |-> <<>>, sent |-> <<>>]]

\* the tables one database transaction reads and writes
Tables == [orders |-> orders, wallets |-> wallets, trades |-> trades,
           transactions |-> transactions]

\* what a transaction's view of the tables keeps for the response record
View(s) == [orders |-> s.orders, wallets |-> s.wallets, trades |-> s.trades]

\* the currency an order (or a request for one) reserves: quote for a buy,
\* base for a sell
ReservedCurrency(o) ==
    IF o.side = "buy" THEN quote_currency(o.trading_pair)
    ELSE base_currency(o.trading_pair)

----------------------------------------------------------------------------
(* Wallet *)

\* mutant: the frozen part counts as available
available_balance_m(w) == w.balance

available_balance(w) == w.balance - w.frozen_balance

----------------------------------------------------------------------------
(* OrderService.place_order *)

\* MarketData.objects.filter(...).order_by('-last_updated'): MarketData has
\* no field last_updated, so the query raises FieldError before any row is
\* read and neither market_data.price nor the 50000 default is ever used.
MarketDataFields == {"id", "trading_pair", "price", "volume_24h", "change_24h",
                     "change_percent_24h", "high_24h", "low_24h", "bid_price",
                     "ask_price", "bid_quantity", "ask_quantity", "timestamp"}

\* estimated_price when no MarketData row exists
DefaultPrice == 50000

MarketDataLookupRaises == "last_updated" \notin MarketDataFields

\* the currency and the amount to freeze, or the exception raised on the way
RequiredAmount(trading_pair, order_type, side, quantity, price) ==
    IF side = "buy"
    THEN IF order_type = "market"
         THEN IF MarketDataLookupRaises
              THEN [err |-> "FieldError", currency |-> quote_currency(trading_pair), amount |-> 0]
              ELSE [err |-> "none", currency |-> quote_currency(trading_pair), amount |-> quantity * DefaultPrice]
         ELSE IF price = NoPrice
              THEN [err |-> "TypeError", currency |-> quote_currency(trading_pair), amount |-> 0]
              ELSE [err |-> "none", currency |-> quote_currency(trading_pair), amount |-> quantity * price]
    ELSE [err |-> "none", currency |-> base_currency(trading_pair), amount |-> quantity]

\* Order.time_in_force: GTC, IOC or FOK, default GTC
TimeInForce == {"GTC", "IOC", "FOK"}

DefaultTimeInForce == "GTC"

\* Order.objects.create: time_in_force and total_fee are not passed and take
\* their defaults
NewOrder(user, trading_pair, order_type, side, quantity, price) ==
    [user |-> user, trading_pair |-> trading_pair,
     order_type |-> order_type, side |-> side,
     quantity |-> quantity, price |-> price, filled_quantity |-> 0,
     remaining_quantity |-> quantity, status |-> "pending",
     time_in_force |-> DefaultTimeInForce, total_fee |-> 0]

\* mutant: the balance check is missing
PlaceOrder_m(s, user, trading_pair, order_type, side, quantity, price) ==
    LET r == RequiredAmount(trading_pair, order_type, side, quantity, price)
        w == s.wallets[user][r.currency]
        id == Len(s.orders) + 1
        frozen == w.frozen_balance + r.amount
    IN  IF r.err # "none"
        THEN [err |-> r.err, id |-> 0, s |-> s]
        ELSE [err |-> "none", id |-> id,
              s |-> [s EXCEPT
                 !.orders = Append(@, NewOrder(user, trading_pair, order_type, side,
                                               quantity, price)),
                 !.wallets[user][r.currency].frozen_balance = frozen]]

\* s: the tables; result: the tables after the call, the new order's id and
\* the exception raised ("none" when the order was placed)
PlaceOrder(s, user, trading_pair, order_type, side, quantity, price) ==
    LET r == RequiredAmount(trading_pair, order_type, side, quantity, price)
        w == s.wallets[user][r.currency]
        id == Len(s.orders) + 1
        frozen == w.frozen_balance + r.amount
    IN  IF r.err # "none"
        THEN [err |-> r.err, id |-> 0, s |-> s]
        ELSE IF available_balance(w) < r.amount
        THEN [err |-> "ValidationError", id |-> 0, s |-> s]
        ELSE [err |-> "none", id |-> id,
              s |-> [s EXCEPT
                 !.orders = Append(@, NewOrder(user, trading_pair, order_type, side,
                                               quantity, price)),
                 !.wallets[user][r.currency].frozen_balance = frozen,
                 !.transactions = @ \cup
                    {[reference_id |-> <<"ORDER", id>>,
                      user |-> user, currency |-> r.currency, status |-> "pending",
                      amount |-> 0 - r.amount,
                      balance_before |-> w.balance + frozen - r.amount,
                      balance_after |-> w.balance]}]]

----------------------------------------------------------------------------
(* OrderService.cancel_order *)

\* mutant: a buy is released by its quantity, not by quantity x price
CancelAmount_m(o) ==
    IF o.side = "buy" /\ o.order_type # "market" /\ o.price # NoPrice
    THEN [err |-> "none", currency |-> quote_currency(o.trading_pair),
          amount |-> o.quantity - o.filled_quantity]
    ELSE IF o.side = "buy"
    THEN [err |-> "TypeError", currency |-> quote_currency(o.trading_pair), amount |-> 0]
    ELSE [err |-> "none", currency |-> base_currency(o.trading_pair),
          amount |-> o.quantity - o.filled_quantity]

\* the amount cancel_order unfreezes, or the exception raised on the way
CancelAmount(o) ==
    IF o.side = "buy"
    THEN IF o.order_type = "market"
         THEN IF MarketDataLookupRaises
              THEN [err |-> "FieldError", currency |-> quote_currency(o.trading_pair), amount |-> 0]
              ELSE [err |-> "none", currency |-> quote_currency(o.trading_pair),
                    amount |-> (o.quantity - o.filled_quantity) * DefaultPrice]
         ELSE IF o.price = NoPrice
              THEN [err |-> "TypeError", currency |-> quote_currency(o.trading_pair), amount |-> 0]
              ELSE [err |-> "none", currency |-> quote_currency(o.trading_pair),
                    amount |-> (o.quantity - o.filled_quantity) * o.price]
    ELSE [err |-> "none", currency |-> base_currency(o.trading_pair),
          amount |-> o.quantity - o.filled_quantity]

\* mutant: the status check is missing
CancelOrder_m(s, id) ==
    LET o == s.orders[id]
        r == CancelAmount(o)
        w == s.wallets[o.user][r.currency]
        left == w.frozen_balance - r.amount
        frozen == IF left < 0 THEN 0 ELSE left
    IN  IF r.err # "none"
        THEN [err |-> r.err, s |-> s]
        ELSE [err |-> "none",
              s |-> [s EXCEPT
                 !.wallets[o.user][r.currency].frozen_balance = frozen,
                 !.orders[id].status = "cancelled"]]

\* order: the order object the caller holds is the row s.orders[id]
CancelOrder(s, id) ==
    LET o == s.orders[id]
        r == CancelAmount(o)
        w == s.wallets[o.user][r.currency]
        left == w.frozen_balance - r.amount
        frozen == IF left < 0 THEN 0 ELSE left
    IN  IF o.status \notin LiveStatus
        THEN [err |-> "ValidationError", s |-> s]
        ELSE IF r.err # "none"
        THEN [err |-> r.err, s |-> s]
        ELSE [err |-> "none",
              s |-> [s EXCEPT
                 !.wallets[o.user][r.currency].frozen_balance = frozen,
                 !.orders[id].status = "cancelled",
                 !.transactions = @ \cup
                    {[reference_id |-> <<"ORDER_CANCEL", id>>,
                      user |-> o.user, currency |-> r.currency, status |-> "completed",
                      amount |-> r.amount,
                      balance_before |-> w.balance,
                      balance_after |-> w.balance]}]]

----------------------------------------------------------------------------
(* OrderService.fill_order *)

\* mutant: a seller is credited at the order's own price
FillOrder_m(s, id, filled_quantity, execution_price) ==
    LET o == s.orders[id]
        u == o.user
        base == base_currency(o.trading_pair)
        quote == quote_currency(o.trading_pair)
        value == filled_quantity * execution_price
        filled == o.filled_quantity + filled_quantity
        ws == IF o.side = "buy"
              THEN [s.wallets EXCEPT
                      ![u][quote].frozen_balance = @ - value,
                      ![u][quote].balance = @ - value,
                      ![u][base].balance = @ + filled_quantity]
              ELSE [s.wallets EXCEPT
                      ![u][base].frozen_balance = @ - filled_quantity,
                      ![u][base].balance = @ - filled_quantity,
                      ![u][quote].balance = @ + filled_quantity * o.price]
    IN  [s EXCEPT
           !.wallets = ws,
           !.orders[id].filled_quantity = filled,
           !.orders[id].status = IF filled >= o.quantity THEN "filled"
                                 ELSE "partial_filled",
           !.orders[id].remaining_quantity = o.quantity - filled]

FillOrder(s, id, filled_quantity, execution_price) ==
    LET o == s.orders[id]
        u == o.user
        base == base_currency(o.trading_pair)
        quote == quote_currency(o.trading_pair)
        value == filled_quantity * execution_price
        filled == o.filled_quantity + filled_quantity
        ws == IF o.side = "buy"
              THEN [s.wallets EXCEPT
                      ![u][quote].frozen_balance = @ - value,
                      ![u][quote].balance = @ - value,
                      ![u][base].balance = @ + filled_quantity]
              ELSE [s.wallets EXCEPT
                      ![u][base].frozen_balance = @ - filled_quantity,
                      ![u][base].balance = @ - filled_quantity,
                      ![u][quote].balance = @ + value]
    IN  [s EXCEPT
           !.wallets = ws,
           !.orders[id].filled_quantity = filled,
           !.orders[id].status = IF filled >= o.quantity THEN "filled"
                                 ELSE "partial_filled",
           !.orders[id].remaining_quantity = o.quantity - filled]

----------------------------------------------------------------------------
(* Trade.objects.create *)

\* the fields of the Trade model and the keyword arguments both match
\* functions pass to Trade.objects.create
TradeFields == {"id", "order", "trading_pair", "buyer", "seller", "price",
                "quantity", "total_value", "buyer_fee", "seller_fee",
                "trade_id", "created_at"}

TradeCreateKwargs == {"order", "buyer", "seller", "quantity", "price", "timestamp"}

\* Model.__init__ raises TypeError on a keyword that is no field of the model
TradeCreateRaises == TradeCreateKwargs \ TradeFields # {}

NewTrade(s, id, cid, match_quantity, execution_price) ==
    LET o == s.orders[id]
        c == s.orders[cid]
    IN  [order |-> id,
         buyer |-> IF o.side = "buy" THEN o.user ELSE c.user,
         seller |-> IF o.side = "buy" THEN c.user ELSE o.user,
         quantity |-> match_quantity, price |-> execution_price,
         total_value |-> execution_price * match_quantity]

----------------------------------------------------------------------------
(* MatchingEngine *)

\* mutant: the exclude(user=order.user) is missing
Eligible_m(s, id) ==
    LET o == s.orders[id]
    IN  {c \in 1..Len(s.orders) :
           /\ s.orders[c].trading_pair = o.trading_pair
           /\ s.orders[c].side = (IF o.side = "buy" THEN "sell" ELSE "buy")
           /\ s.orders[c].status \in LiveStatus
           /\ s.orders[c].order_type = "limit"
           /\ o.order_type = "limit" =>
                 /\ s.orders[c].price # NoPrice
                 /\ IF o.side = "buy" THEN s.orders[c].price <= o.price
                    ELSE s.orders[c].price >= o.price}

\* the filter()/exclude() of the match functions: resting limit orders of
\* the opposite side, of other users, priced within the limit of a limit
\* aggressor (a NULL price never satisfies price__lte / price__gte)
Eligible(s, id) ==
    LET o == s.orders[id]
    IN  {c \in 1..Len(s.orders) :
           /\ s.orders[c].trading_pair = o.trading_pair
           /\ s.orders[c].side = (IF o.side = "buy" THEN "sell" ELSE "buy")
           /\ s.orders[c].status \in LiveStatus
           /\ s.orders[c].order_type = "limit"
           /\ o.order_type = "limit" =>
                 /\ s.orders[c].price # NoPrice
                 /\ IF o.side = "buy" THEN s.orders[c].price <= o.price
                    ELSE s.orders[c].price >= o.price
           /\ s.orders[c].user # o.user}

\* mutant: order_by('created_at') only
Before_m(s, side, a, b) == a < b

\* order_by('price', 'created_at') for a buy, ('-price', 'created_at') for a sell
Before(s, side, a, b) ==
    \/ IF side = "buy" THEN s.orders[a].price < s.orders[b].price
       ELSE s.orders[a].price > s.orders[b].price
    \/ s.orders[a].price = s.orders[b].price /\ a < b

RECURSIVE OrderBy(_, _, _)
OrderBy(s, side, S) ==
    IF S = {} THEN <<>>
    ELSE LET first == CHOOSE a \in S : \A b \in S \ {a} : Before(s, side, a, b)
         IN  <<first>> \o OrderBy(s, side, S \ {first})

available_orders(s, id) == OrderBy(s, s.orders[id].side, Eligible(s, id))

\* mutant: the aggressor's remainder, whatever the resting order has left
match_quantity_m(remaining_quantity, counter_remaining) == remaining_quantity

match_quantity(remaining_quantity, counter_remaining) ==
    Min(remaining_quantity, counter_remaining)

\* mutant: a limit aggressor trades at its own price
execution_price_m(o, counter_order) ==
    IF o.order_type = "limit" THEN o.price ELSE counter_order.price

execution_price(o, counter_order) == counter_order.price

\* the "for counter_order in available_orders" loop; the rows of
\* available_orders are those read when the loop starts (q)
RECURSIVE Walk(_, _, _, _, _, _)
Walk(s, q, id, cands, remaining_quantity, fills) ==
    IF cands = <<>> \/ remaining_quantity <= 0
    THEN [err |-> "none", s |-> s, fills |-> fills]
    ELSE LET cid == Head(cands)
             counter_order == q.orders[cid]
             counter_remaining == counter_order.quantity - counter_order.filled_quantity
             mq == match_quantity(remaining_quantity, counter_remaining)
             ep == execution_price(s.orders[id], counter_order)
             s1 == FillOrder(s, id, mq, ep)
             \* counter_order.save() writes the row from the object in memory
             s2 == FillOrder([s1 EXCEPT !.orders[cid] = counter_order], cid, mq, ep)
             s3 == [s2 EXCEPT !.trades = Append(@, NewTrade(s2, id, cid, mq, ep))]
             f == [order |-> id, counter |-> cid, quantity |-> mq, price |-> ep]
         IN  IF ep = NoPrice
             THEN [err |-> "InvalidOperation", s |-> s, fills |-> fills]
             ELSE IF TradeCreateRaises
             THEN [err |-> "TypeError", s |-> s2, fills |-> Append(fills, f)]
             ELSE Walk(s3, q, id, Tail(cands), remaining_quantity - mq,
                       Append(fills, f))

MatchLimitOrder(s, id) ==
    LET o == s.orders[id]
    IN  IF o.status # "pending"
        THEN [err |-> "none", s |-> s, fills |-> <<>>]
        ELSE IF o.price = NoPrice
        THEN [err |-> "ValueError", s |-> s, fills |-> <<>>]
        ELSE Walk(s, s, id, available_orders(s, id),
                  o.quantity - o.filled_quantity, <<>>)

MatchMarketOrder(s, id) ==
    LET o == s.orders[id]
        w == Walk(s, s, id, available_orders(s, id),
                  o.quantity - o.filled_quantity, <<>>)
        a == w.s.orders[id]
    IN  IF o.status # "pending"
        THEN [err |-> "none", s |-> s, fills |-> <<>>]
        ELSE IF w.err # "none" THEN w
        ELSE IF a.status \in LiveStatus
        THEN [w EXCEPT !.s.orders[id].status =
                 IF a.filled_quantity > 0 THEN "partial_filled" ELSE "cancelled"]
        ELSE w

\* mutant: every order that is not a market order is matched as a limit order
ExecuteOrder_m(s, id) ==
    IF s.orders[id].order_type = "market" THEN MatchMarketOrder(s, id)
    ELSE MatchLimitOrder(s, id)

ExecuteOrder(s, id) ==
    IF s.orders[id].order_type = "market" THEN MatchMarketOrder(s, id)
    ELSE IF s.orders[id].order_type = "limit" THEN MatchLimitOrder(s, id)
    ELSE [err |-> "ValueError", s |-> s, fills |-> <<>>]

----------------------------------------------------------------------------
Init ==
    /\ orders = <<>>
    /\ wallets = [u \in Users |-> [c \in Currencies |->
                     [balance |-> IF c = "USDT" THEN InitQuote ELSE InitBase,
                      frozen_balance |-> 0]]]
    /\ trades = <<>>
    /\ transactions = {}
    /\ resp = [kind |-> "none", id |-> 0, prev |-> 0, err |-> "none",
               matchErr |-> "none", fills |-> <<>>, tx |-> View(Tables),
               pre |-> wallets, time_in_force |-> DefaultTimeInForce]
    /\ procs = [p \in Procs |-> Idle]
    /\ feed = NoFeed

\* mutant: what a match wrote before it raised stays written
Submit_m(user, trading_pair, order_type, side, quantity, price, time_in_force) ==
    LET p == PlaceOrder(Tables, user, trading_pair, order_type, side, quantity, price)
        m == ExecuteOrder(p.s, p.id)
        done == IF p.err # "none" THEN Tables ELSE m.s
    IN  /\ Len(orders) < MaxOrders
        /\ orders' = done.orders
        /\ wallets' = done.wallets
        /\ trades' = done.trades
        /\ transactions' = done.transactions
        /\ resp' = IF p.err # "none"
                   THEN [kind |-> "submit", id |-> 0, prev |-> 0, err |-> p.err,
                         matchErr |-> "none", fills |-> <<>>,
                         tx |-> View(Tables), pre |-> wallets,
                         time_in_force |-> time_in_force]
                   ELSE [kind |-> "submit", id |-> p.id, prev |-> 0, err |-> "none",
                         matchErr |-> m.err, fills |-> m.fills,
                         tx |-> View(m.s), pre |-> wallets,
                         time_in_force |-> time_in_force]
        /\ UNCHANGED <<procs, feed>>

\* OrderViewSet.perform_create: POST /trading/orders.  place_order commits
\* on return; an exception of execute_order rolls the match transaction
\* back and is logged, and the response is built from the order object the
\* match worked on.  time_in_force is a key of the request body that
\* OrderSerializer does not declare: validated_data does not hold it and
\* place_order is called without it.
Submit(user, trading_pair, order_type, side, quantity, price, time_in_force) ==
    LET p == PlaceOrder(Tables, user, trading_pair, order_type, side, quantity, price)
        m == ExecuteOrder(p.s, p.id)
        done == IF p.err # "none" THEN Tables
                ELSE IF m.err # "none" THEN p.s ELSE m.s
    IN  /\ Len(orders) < MaxOrders
        /\ orders' = done.orders
        /\ wallets' = done.wallets
        /\ trades' = done.trades
        /\ transactions' = done.transactions
        /\ resp' = IF p.err # "none"
                   THEN [kind |-> "submit", id |-> 0, prev |-> 0, err |-> p.err,
                         matchErr |-> "none", fills |-> <<>>,
                         tx |-> View(Tables), pre |-> wallets,
                         time_in_force |-> time_in_force]
                   ELSE [kind |-> "submit", id |-> p.id, prev |-> 0, err |-> "none",
                         matchErr |-> m.err, fills |-> m.fills,
                         tx |-> View(m.s), pre |-> wallets,
                         time_in_force |-> time_in_force]
        /\ UNCHANGED <<procs, feed>>

\* OrderViewSet.cancel: POST /trading/orders/{id}/cancel by the order's owner
Cancel(id) ==
    LET c == CancelOrder(Tables, id)
    IN  /\ orders' = c.s.orders
        /\ wallets' = c.s.wallets
        /\ trades' = c.s.trades
        /\ transactions' = c.s.transactions
        /\ resp' = [kind |-> "cancel", id |-> IF c.err = "none" THEN id ELSE 0,
                    prev |-> IF c.err = "none" /\ resp.kind = "submit" THEN resp.id ELSE 0,
                    err |-> c.err,
                    matchErr |-> "none", fills |-> <<>>,
                    tx |-> View(c.s), pre |-> wallets,
                    time_in_force |-> DefaultTimeInForce]
        /\ UNCHANGED <<procs, feed>>

\* OrderViewSet.partial_update (inherited from ModelViewSet, routed by the
\* router): PATCH /trading/orders/{id}/ {"status": status} by the order's
\* owner; OrderSerializer leaves status writable, and Order.save()
\* recomputes remaining_quantity.
OrderUpdate(id, status) ==
    /\ orders' = [orders EXCEPT
                    ![id].status = status,
                    ![id].remaining_quantity =
                        orders[id].quantity - orders[id].filled_quantity]
    /\ UNCHANGED <<wallets, trades, transactions>>
    /\ resp' = [kind |-> "update", id |-> id, prev |-> 0, err |-> "none",
                matchErr |-> "none", fills |-> <<>>,
                tx |-> [View(Tables) EXCEPT !.orders = orders'],
                pre |-> wallets, time_in_force |-> DefaultTimeInForce]
    /\ UNCHANGED <<procs, feed>>

\* CancelOrderView.post, by the order's owner: the status is set whatever it
\* was and no wallet is read; it leaves the tables as OrderUpdate(id,
\* "cancelled") does
CancelOrderPost(id) ==
    /\ orders' = [orders EXCEPT
                    ![id].status = "cancelled",
                    ![id].remaining_quantity =
                        orders[id].quantity - orders[id].filled_quantity]
    /\ UNCHANGED <<wallets, trades, transactions, procs, feed>>
    /\ resp' = [kind |-> "cancel_post", id |-> id, prev |-> 0, err |-> "none",
                matchErr |-> "none", fills |-> <<>>,
                tx |-> [View(Tables) EXCEPT !.orders = orders'],
                pre |-> wallets, time_in_force |-> DefaultTimeInForce]

Next ==
    \/ \E u \in Users, d \in OrderInputs :
          Submit(u, d.trading_pair, d.order_type, d.side, d.quantity, d.price,
                 DefaultTimeInForce)
    \/ \E id \in 1..Len(orders) : Cancel(id)

Spec == Init /\ [][Next]_vars

\* the order endpoints as a client can call them: submit and cancel of
\* unit limit orders at the unit price, and the update of an order's status
\* to pending, rejected or cancelled
ApiInputs == [trading_pair : {"BTCUSDT"}, order_type : {"limit"},
              side : OrderSides, quantity : {1}, price : {1}]

ApiStatus == {"pending", "rejected", "cancelled"}

NextApi ==
    \/ \E u \in Users, d \in ApiInputs :
          Submit(u, d.trading_pair, d.order_type, d.side, d.quantity, d.price,
                 DefaultTimeInForce)
    \/ \E id \in 1..Len(orders) : Cancel(id)
    \/ \E id \in 1..Len(orders), st \in ApiStatus : OrderUpdate(id, st)
    \/ \E id \in 1..Len(orders) : CancelOrderPost(id)

SpecApi == Init /\ [][NextApi]_vars

\* submits of unit limit orders and the update of an order's status to any
\* of the choices of the column
NextOrderUpdate ==
    \/ \E u \in Users, d \in ApiInputs :
          Submit(u, d.trading_pair, d.order_type, d.side, d.quantity, d.price,
                 DefaultTimeInForce)
    \/ \E id \in 1..Len(orders), st \in OrderStatus : OrderUpdate(id, st)

SpecOrderUpdate == Init /\ [][NextOrderUpdate]_vars

\* WalletViewSet.partial_update: PATCH /wallets/{pk}/ {column: amount} by the
\* wallet's owner.  WalletSerializer leaves balance and frozen_balance
\* writable; the columns' MinValueValidator(0) refuses a negative amount.
WalletUpdate(user, currency, column, amount) ==
    /\ amount >= 0
    /\ wallets' = IF column = "balance"
                  THEN [wallets EXCEPT ![user][currency].balance = amount]
                  ELSE [wallets EXCEPT ![user][currency].frozen_balance = amount]
    /\ UNCHANGED <<orders, trades, transactions, procs, feed>>
    /\ resp' = [kind |-> "wallet_update", id |-> 0, prev |-> 0, err |-> "none",
                matchErr |-> "none", fills |-> <<>>,
                tx |-> [View(Tables) EXCEPT !.wallets = wallets'],
                pre |-> wallets, time_in_force |-> DefaultTimeInForce]

\* the amounts u1 writes into its quote wallet
MaxWalletAmount == 1

WalletAmounts == 0..MaxWalletAmount

NextWallet ==
    \/ \E u \in Users, d \in ApiInputs :
          Submit(u, d.trading_pair, d.order_type, d.side, d.quantity, d.price,
                 DefaultTimeInForce)
    \/ \E id \in 1..Len(orders) : Cancel(id)
    \/ \E column \in {"balance", "frozen_balance"}, amount \in WalletAmounts :
          WalletUpdate("u1", "USDT", column, amount)

SpecWallet == Init /\ [][NextWallet]_vars

\* submits whose body names a time_in_force, and cancels: limit orders at
\* the unit price
TifInputs == [trading_pair : {"BTCUSDT"}, order_type : {"limit"},
              side : OrderSides, quantity : Quantities, price : {1},
              time_in_force : TimeInForce]

NextTif ==
    \/ \E u \in Users, d \in TifInputs :
          Submit(u, d.trading_pair, d.order_type, d.side, d.quantity, d.price,
                 d.time_in_force)
    \/ \E id \in 1..Len(orders) : Cancel(id)

SpecTif == Init /\ [][NextTif]_vars

----------------------------------------------------------------------------
(* Requests that run concurrently.  No function of the order service or of *)
(* the matching engine takes a lock (no select_for_update, no F()          *)
(* expression): each reads rows into objects, changes the objects and      *)
(* saves them.  A request is cut where it reads rows it later writes from  *)
(* memory; the statements between two cuts are taken as one step.          *)

\* place_order up to the balance check: the wallet row is read into memory
\* (get_or_create) and the check is made on that object
PlaceBegin(p, user, d) ==
    LET r == RequiredAmount(d.trading_pair, d.order_type, d.side, d.quantity, d.price)
        w == wallets[user][r.currency]
    IN  /\ procs[p].pc \in {"idle", "done"}
        /\ procs' = [procs EXCEPT ![p] =
              IF r.err # "none" \/ available_balance(w) < r.amount
              THEN Idle
              ELSE [pc |-> "placing", user |-> user, d |-> d, wallet |-> w]]
        /\ UNCHANGED <<orders, wallets, trades, transactions, resp, feed>>

\* the rest of place_order: the order is created, frozen_balance is saved
\* from the wallet object read by PlaceBegin (update_fields), the journal
\* entry is written and the transaction commits
PlaceCommit(p) ==
    LET me == procs[p]
        mine == [Tables EXCEPT !.wallets[me.user][ReservedCurrency(me.d)] = me.wallet]
        done == PlaceOrder(mine, me.user, me.d.trading_pair, me.d.order_type,
                           me.d.side, me.d.quantity, me.d.price)
        c == ReservedCurrency(me.d)
    IN  /\ me.pc = "placing"
        /\ orders' = done.s.orders
        /\ wallets' = [wallets EXCEPT ![me.user][c].frozen_balance =
                          done.s.wallets[me.user][c].frozen_balance]
        /\ transactions' = done.s.transactions
        /\ procs' = [procs EXCEPT ![p] =
              [pc |-> "placed", id |-> done.id, order |-> done.s.orders[done.id]]]
        /\ UNCHANGED <<trades, resp, feed>>

\* the orders that requests other than p are matching
Matching(p) == {procs[x].id : x \in {y \in Procs \ {p} : procs[y].pc = "matching"}}

\* execute_order up to the start of the loop: the queryset available_orders
\* is evaluated, and the loop works on the rows it returned
MatchBegin(p) ==
    /\ procs[p].pc = "placed"
    /\ procs' = [procs EXCEPT ![p] =
          [pc |-> "matching", id |-> procs[p].id, order |-> procs[p].order,
           q |-> orders, overlap |-> Matching(p)]]
    /\ UNCHANGED <<orders, wallets, trades, transactions, resp, feed>>

\* the loop and the end of the match transaction: fill_order reads each
\* wallet when it is called and saves the order objects held in memory; an
\* exception rolls everything back
MatchEnd(p) ==
    LET me == procs[p]
        mine == [Tables EXCEPT !.orders[me.id] = me.order]
        rows == [orders |-> me.q]
        m == IF me.order.order_type = "limit" /\ me.order.price # NoPrice
             THEN Walk(mine, rows, me.id, available_orders(rows, me.id),
                       me.order.quantity - me.order.filled_quantity, <<>>)
             ELSE ExecuteOrder(mine, me.id)
        done == IF m.err # "none" THEN Tables ELSE m.s
    IN  /\ me.pc = "matching"
        /\ orders' = done.orders
        /\ wallets' = done.wallets
        /\ trades' = done.trades
        /\ transactions' = done.transactions
        /\ procs' = [procs EXCEPT ![p] =
              [pc |-> "done", id |-> me.id, fills |-> m.fills,
               overlap |-> me.overlap \cup Matching(p)]]
        /\ UNCHANGED <<resp, feed>>

\* OrderViewSet.cancel up to the call of cancel_order: get_object reads the
\* order row into memory
CancelBegin(p, id) ==
    /\ procs[p].pc \in {"idle", "done"}
    /\ orders[id].status \in LiveStatus
    /\ procs' = [procs EXCEPT ![p] =
          [pc |-> "cancelling", id |-> id, order |-> orders[id]]]
    /\ UNCHANGED <<orders, wallets, trades, transactions, resp, feed>>

\* cancel_order: the status check and the amount come from the order object,
\* the wallet is read now, and order.save writes the status column only
CancelEnd(p) ==
    LET me == procs[p]
        mine == [Tables EXCEPT !.orders[me.id] = me.order]
        c == CancelOrder(mine, me.id)
    IN  /\ me.pc = "cancelling"
        /\ orders' = IF c.err = "none"
                     THEN [orders EXCEPT ![me.id].status = "cancelled"]
                     ELSE orders
        /\ wallets' = c.s.wallets
        /\ trades' = c.s.trades
        /\ transactions' = c.s.transactions
        /\ procs' = [procs EXCEPT ![p] = Idle]
        /\ UNCHANGED <<resp, feed>>

\* the orders placed and being placed
Placing == Len(orders) + Cardinality({x \in Procs : procs[x].pc = "placing"})

\* the requests of the concurrent runs on one pair, all at the unit price:
\* u2 sells, u1 buys, and both cancel
ConcRequests ==
    [user : {"u2"}, trading_pair : {"BTCUSDT"}, order_type : {"limit"},
     side : {"sell"}, quantity : {1}, price : {1}]
    \cup [user : {"u1"}, trading_pair : {"BTCUSDT"}, order_type : {"limit"},
          side : {"buy"}, quantity : Quantities, price : {1}]

NextConc ==
    \/ \E p \in Procs, d \in ConcRequests :
          Placing < MaxOrders /\ PlaceBegin(p, d.user, d)
    \/ \E p \in Procs : PlaceCommit(p)
    \/ \E p \in Procs : MatchBegin(p)
    \/ \E p \in Procs : MatchEnd(p)
    \/ \E p \in Procs, id \in 1..Len(orders) : CancelBegin(p, id)
    \/ \E p \in Procs : CancelEnd(p)

SpecConc == Init /\ [][NextConc]_vars

\* Two pairs.  u2 has placed a sell of one unit on BTCUSDT and a buy of one
\* unit on ETHUSDT, both at the unit price; neither matched.
RestingPairs(empty) ==
    LET first == PlaceOrder(empty, "u2", "BTCUSDT", "limit", "sell", 1, 1)
        second == PlaceOrder(first.s, "u2", "ETHUSDT", "limit", "buy", 1, 1)
    IN  [s |-> second.s, pre |-> first.s.wallets]

InitPairs ==
    LET empty == [orders |-> <<>>,
                  wallets |-> [u \in Users |-> [c \in Currencies |->
                     [balance |-> IF c = "USDT" THEN InitQuote ELSE InitBase,
                      frozen_balance |-> 0]]],
                  trades |-> <<>>, transactions |-> {}]
        resting == RestingPairs(empty)
    IN  /\ orders = resting.s.orders
        /\ wallets = resting.s.wallets
        /\ trades = resting.s.trades
        /\ transactions = resting.s.transactions
        /\ resp = [kind |-> "submit", id |-> 2, prev |-> 0, err |-> "none",
                   matchErr |-> "none", fills |-> <<>>, tx |-> View(resting.s),
                   pre |-> resting.pre, time_in_force |-> DefaultTimeInForce]
        /\ procs = [p \in Procs |-> Idle]
        /\ feed = NoFeed

\* u1 takes on both pairs
PairRequests ==
    [user : {"u1"}, trading_pair : {"BTCUSDT"}, order_type : {"limit"},
     side : {"buy"}, quantity : {1}, price : {1}]
    \cup [user : {"u1"}, trading_pair : {"ETHUSDT"}, order_type : {"limit"},
          side : {"sell"}, quantity : {1}, price : {1}]

MaxPairOrders == 4

NextPairs ==
    \/ \E p \in Procs, d \in PairRequests :
          Placing < MaxPairOrders /\ PlaceBegin(p, d.user, d)
    \/ \E p \in Procs : PlaceCommit(p)
    \/ \E p \in Procs : MatchBegin(p)
    \/ \E p \in Procs : MatchEnd(p)

SpecPairs == InitPairs /\ [][NextPairs]_vars

----------------------------------------------------------------------------
(* The generator commands (generate_orderbook, generate_market_data) and   *)
(* OrderBookConsumer.  Every tick of a generator handles every active      *)
(* pair; the model takes the pairs of a tick one at a time.                *)

MaxTicks == 2

\* the group of an order-book socket: orderbook_<pair>
Joined(pair) ==
    feed.consumer.pc \in {"joined", "open"} /\ feed.consumer.pair = pair

\* mutant: the generator also places an order for the levels it generates
OrderBookWrite_m(pair) ==
    /\ feed.pc = "idle"
    /\ feed.order_book[pair] < MaxTicks
    /\ feed' = [feed EXCEPT !.order_book[pair] = @ + 1,
                            !.pc = "publish", !.pair = pair]
    /\ orders' = Append(orders, NewOrder("u1", pair, "limit", "buy", 1, 1))
    /\ UNCHANGED <<wallets, trades, transactions, resp, procs>>

\* Command.handle of generate_orderbook, for one pair, up to
\* update_orderbook_db: the pair's OrderBook rows are replaced by generated
\* levels, whatever orders the pair has
OrderBookWrite(pair) ==
    /\ feed.pc = "idle"
    /\ feed.order_book[pair] < MaxTicks
    /\ feed' = [feed EXCEPT !.order_book[pair] = @ + 1,
                            !.pc = "publish", !.pair = pair]
    /\ UNCHANGED <<orders, wallets, trades, transactions, resp, procs>>

\* the group_send that follows: orderbook_update with the generated levels
\* goes to the channel of every socket in the pair's group
OrderBookPublish ==
    /\ feed.pc = "publish"
    /\ feed' = [feed EXCEPT
          !.pc = "idle", !.pair = "none",
          !.consumer.queue =
              IF Joined(feed.pair)
              THEN Append(@, [type |-> "orderbook_update",
                              data |-> feed.order_book[feed.pair]])
              ELSE @]
    /\ UNCHANGED <<orders, wallets, trades, transactions, resp, procs>>

\* Command.run_continuous of generate_market_data, for one pair: the
\* MarketData row is created or rewritten (and price_update is sent to the
\* price group, which no order-book socket is in)
MarketDataTick(pair) ==
    /\ feed.market_data[pair] < MaxTicks
    /\ feed' = [feed EXCEPT !.market_data[pair] = @ + 1]
    /\ UNCHANGED <<orders, wallets, trades, transactions, resp, procs>>

\* the updates the pair's group has carried
Published(pair) ==
    IF feed.pc = "publish" /\ feed.pair = pair THEN feed.order_book[pair] - 1
    ELSE feed.order_book[pair]

\* OrderBookConsumer.connect up to accept(): the channel joins the group
Connect(pair) ==
    /\ feed.consumer.pc = "closed"
    /\ feed' = [feed EXCEPT !.consumer =
          [pc |-> "joined", pair |-> pair, joined |-> Published(pair),
           queue |-> <<>>, sent |-> <<>>]]
    /\ UNCHANGED <<orders, wallets, trades, transactions, resp, procs>>

\* send_initial_orderbook, the end of connect(): the OrderBook rows are
\* read and sent as orderbook_data
SendInitialOrderbook ==
    /\ feed.consumer.pc = "joined"
    /\ feed' = [feed EXCEPT
          !.consumer.pc = "open",
          !.consumer.sent = Append(@, [type |-> "orderbook_data",
                                       data |-> feed.order_book[feed.consumer.pair]])]
    /\ UNCHANGED <<orders, wallets, trades, transactions, resp, procs>>

\* mutant: a message of the channel is dispatched while connect() runs
OrderBookUpdate_m ==
    /\ feed.consumer.pc \in {"joined", "open"}
    /\ feed.consumer.queue # <<>>
    /\ feed' = [feed EXCEPT
          !.consumer.queue = Tail(@),
          !.consumer.sent = Append(@, Head(feed.consumer.queue))]
    /\ UNCHANGED <<orders, wallets, trades, transactions, resp, procs>>

\* OrderBookConsumer.orderbook_update: the consumer takes the next message
\* of its channel and sends it on; a consumer dispatches one message at a
\* time, so none is taken before connect() has returned
OrderBookUpdate ==
    /\ feed.consumer.pc = "open"
    /\ feed.consumer.queue # <<>>
    /\ feed' = [feed EXCEPT
          !.consumer.queue = Tail(@),
          !.consumer.sent = Append(@, Head(feed.consumer.queue))]
    /\ UNCHANGED <<orders, wallets, trades, transactions, resp, procs>>

\* OrderBookConsumer.disconnect: the channel leaves the group
Disconnect ==
    /\ feed.consumer.pc \in {"joined", "open"}
    /\ feed' = [feed EXCEPT !.consumer = NoFeed.consumer]
    /\ UNCHANGED <<orders, wallets, trades, transactions, resp, procs>>

\* the order-book generator and one socket
NextFeed ==
    \/ \E pair \in TradingPairs : OrderBookWrite(pair)
    \/ OrderBookPublish
    \/ \E pair \in TradingPairs : Connect(pair)
    \/ SendInitialOrderbook
    \/ OrderBookUpdate
    \/ Disconnect

SpecFeed == Init /\ [][NextFeed]_vars

MaxSimOrders == 2

\* the two generators next to submits and cancels of unit limit orders
NextSim ==
    \/ \E u \in Users, d \in ApiInputs :
          /\ Len(orders) < MaxSimOrders
          /\ Submit(u, d.trading_pair, d.order_type, d.side, d.quantity, d.price,
                    DefaultTimeInForce)
    \/ \E id \in 1..Len(orders) : Cancel(id)
    \/ \E pair \in TradingPairs : OrderBookWrite(pair)
    \/ OrderBookPublish
    \/ \E pair \in TradingPairs : MarketDataTick(pair)

SpecSim == Init /\ [][NextSim]_vars

----------------------------------------------------------------------------
(* Claims *)

RECURSIVE SumBalance(_, _, _)
SumBalance(ws, c, S) ==
    IF S = {} THEN 0
    ELSE LET u == CHOOSE x \in S : TRUE
         IN  ws[u][c].balance + SumBalance(ws, c, S \ {u})

FreezeBound(ws) ==
    \A u \in Users, c \in Currencies :
        /\ 0 <= ws[u][c].frozen_balance
        /\ ws[u][c].frozen_balance <= ws[u][c].balance

\* C1: after every submit, match and cancel, every wallet has
\* 0 <= frozen_balance <= balance, in the stored tables and in the tables
\* as the match transaction of the request left them.
C1_FreezeBound == FreezeBound(wallets) /\ FreezeBound(resp.tx.wallets)

\* a match applied a fill, an order was cancelled, and funds are frozen
C1_Witness ==
    /\ resp.kind = "submit" /\ resp.fills # <<>>
    /\ \E i \in 1..Len(orders) : orders[i].status = "cancelled"
    /\ \E u \in Users, c \in Currencies :
          wallets[u][c].frozen_balance = wallets[u][c].balance

\* C2: for each currency the sum of balance over all wallets is what it
\* was initially, in the stored tables and in the tables as the match
\* transaction of the request left them.
C2_Conservation ==
    \A c \in Currencies :
        LET total == Cardinality(Users) * (IF c = "USDT" THEN InitQuote ELSE InitBase)
        IN  /\ SumBalance(wallets, c, Users) = total
            /\ SumBalance(resp.tx.wallets, c, Users) = total

\* a match moved balances between two users at a price below the
\* aggressor's limit
C2_Witness ==
    /\ resp.kind = "submit" /\ resp.fills # <<>>
    /\ resp.tx.wallets # wallets
    /\ orders[resp.id].order_type = "limit"
    /\ resp.fills[1].price # orders[resp.id].price

\* the part of an order's reservation that is still open
OpenReservation(o, c) ==
    IF o.status \notin LiveStatus THEN 0
    ELSE IF o.side = "buy"
    THEN IF c = quote_currency(o.trading_pair)
         THEN (o.quantity - o.filled_quantity) * o.price ELSE 0
    ELSE IF c = base_currency(o.trading_pair)
         THEN o.quantity - o.filled_quantity ELSE 0

RECURSIVE SumOpen(_, _, _, _)
SumOpen(os, u, c, n) ==
    IF n = 0 THEN 0
    ELSE (IF os[n].user = u THEN OpenReservation(os[n], c) ELSE 0)
         + SumOpen(os, u, c, n - 1)

\* C3: each wallet's frozen_balance equals the sum of the still-open
\* reservations of its owner's live orders in that currency.
C3_FrozenIsOpenReservations ==
    \A u \in Users, c \in Currencies :
        wallets[u][c].frozen_balance = SumOpen(orders, u, c, Len(orders))

C5_OneTradeAtRestingPrice ==
    LET a == orders[1]
        b == orders[2]
        q == Min(a.quantity, b.quantity)
        buyer == IF a.side = "buy" THEN a.user ELSE b.user
        seller == IF a.side = "buy" THEN b.user ELSE a.user
    IN  (/\ Len(orders) = 2
         /\ resp.kind = "submit" /\ resp.id = 2
         /\ a.order_type = "limit" /\ b.order_type = "limit"
         /\ a.side # b.side /\ a.user # b.user
         /\ a.price = b.price /\ a.price # NoPrice
         /\ a.status # "cancelled")
        => /\ Len(trades) = 1
           /\ trades[1].price = a.price
           /\ trades[1].quantity = q
           /\ a.filled_quantity = q /\ b.filled_quantity = q
           /\ wallets[buyer]["BTC"].balance = resp.pre[buyer]["BTC"].balance + q
           /\ wallets[buyer]["USDT"].balance
                 = resp.pre[buyer]["USDT"].balance - q * a.price
           /\ wallets[seller]["BTC"].balance = resp.pre[seller]["BTC"].balance - q
           /\ wallets[seller]["USDT"].balance
                 = resp.pre[seller]["USDT"].balance + q * a.price

\* c is a resting order the aggressor o may trade with, in the words of
\* the matching rule: a live limit order of another user on the other
\* side, priced within o's limit when o is a limit order
Crosses(os, o, c) ==
    /\ os[c].order_type = "limit" /\ os[c].status \in LiveStatus
    /\ os[c].trading_pair = o.trading_pair
    /\ os[c].side # o.side /\ os[c].user # o.user
    /\ o.order_type = "limit" =>
          /\ os[c].price # NoPrice
          /\ IF o.side = "buy" THEN os[c].price <= o.price
             ELSE os[c].price >= o.price

\* c has price-time priority over d for the aggressor o
Precedes(os, o, c, d) ==
    \/ IF o.side = "buy" THEN os[c].price < os[d].price
       ELSE os[c].price > os[d].price
    \/ os[c].price = os[d].price /\ c < d

\* C6: in every match a resting order receives a fill only if every
\* eligible resting order with a better price, or the same price and an
\* earlier created_at, was completely filled by an earlier fill of the match.
C6_PriceTimePriority ==
    [][resp'.kind = "submit" /\ resp'.id # 0 =>
         LET o == orders'[resp'.id]
             fills == resp'.fills
         IN  \A k \in 1..Len(fills) : \A c \in 1..Len(orders) :
                (Crosses(orders, o, c) /\ Precedes(orders, o, c, fills[k].counter))
                => \E j \in 1..(k - 1) :
                      /\ fills[j].counter = c
                      /\ fills[j].quantity
                            = orders[c].quantity - orders[c].filled_quantity]_vars

\* a match filled the best of two eligible resting orders of different
\* price, the better one being the later one
C6_Witness ==
    /\ resp.kind = "submit" /\ resp.fills # <<>>
    /\ \E c \in 1..Len(orders) :
          /\ c < resp.fills[1].counter
          /\ Crosses(orders, orders[resp.id], c)
          /\ orders[c].price # orders[resp.fills[1].counter].price

\* C7: every fill executes at the resting order's price, and a limit
\* aggressor is filled at a price no worse than its own limit.
C7_MakerPrice ==
    \A k \in 1..Len(resp.fills) :
        LET f == resp.fills[k]
            o == resp.tx.orders[f.order]
            c == resp.tx.orders[f.counter]
        IN  /\ f.price = c.price
            /\ o.order_type = "limit" =>
                  IF o.side = "buy" THEN f.price <= o.price
                  ELSE f.price >= o.price

\* a limit buy was filled below its limit, at the price of the resting sell
C7_Witness ==
    /\ resp.kind = "submit" /\ resp.fills # <<>>
    /\ orders[resp.id].order_type = "limit" /\ orders[resp.id].side = "buy"
    /\ resp.fills[1].price < orders[resp.id].price

\* C8: no fill pairs two orders of one user, a submit leaves the resting
\* orders of the submitting user as they were (in the match transaction
\* and in the stored table), and no Trade has buyer = seller.
C8_NoSelfTrade ==
    [][resp'.kind = "submit" /\ resp'.id # 0 =>
         LET o == orders'[resp'.id]
             t == resp'.tx
         IN  /\ \A k \in 1..Len(resp'.fills) :
                   t.orders[resp'.fills[k].order].user
                      # t.orders[resp'.fills[k].counter].user
             /\ \A c \in 1..Len(orders) :
                   orders[c].user = o.user =>
                      t.orders[c] = orders[c] /\ orders'[c] = orders[c]
             /\ \A k \in 1..Len(t.trades) : t.trades[k].buyer # t.trades[k].seller
             /\ \A k \in 1..Len(trades') : trades'[k].buyer # trades'[k].seller]_vars

\* the aggressor's owner has an older resting order on the other side at a
\* price the aggressor crosses; the match passed it over and filled the
\* order of another user
C8_Witness ==
    /\ resp.kind = "submit" /\ resp.fills # <<>>
    /\ \E c \in 1..Len(orders) :
          LET o == orders[resp.id]
          IN  /\ c < resp.fills[1].counter
              /\ orders[c].user = o.user /\ orders[c].side # o.side
              /\ orders[c].order_type = "limit" /\ orders[c].status = "pending"
              /\ orders[c].price # NoPrice /\ o.order_type = "limit"
              /\ IF o.side = "buy" THEN orders[c].price <= o.price
                 ELSE orders[c].price >= o.price

StatusStep(a, b) ==
    \/ a = b
    \/ <<a, b>> \in {<<"pending", "partial_filled">>, <<"partial_filled", "filled">>,
                     <<"pending", "filled">>, <<"pending", "cancelled">>,
                     <<"partial_filled", "cancelled">>, <<"pending", "rejected">>}

\* C9: an order's status changes only along pending -> partial_filled ->
\* filled, pending -> filled, pending | partial_filled -> cancelled,
\* pending -> rejected; a filled, cancelled or rejected order keeps its status.
C9_StatusDag ==
    [][\A i \in 1..Len(orders) : StatusStep(orders[i].status, orders'[i].status)]_vars

\* C10: an order's filled_quantity never decreases and never exceeds its
\* quantity, in the stored table and in the match transaction.
C10_FilledMonotoneBounded ==
    [][/\ \A i \in 1..Len(orders) :
             /\ orders'[i].filled_quantity >= orders[i].filled_quantity
             /\ resp'.tx.orders[i].filled_quantity >= orders[i].filled_quantity
       /\ \A i \in 1..Len(orders') :
             orders'[i].filled_quantity <= orders'[i].quantity
       /\ \A i \in 1..Len(resp'.tx.orders) :
             resp'.tx.orders[i].filled_quantity <= resp'.tx.orders[i].quantity]_vars

\* a match filled a resting order of quantity 1 against an aggressor of
\* quantity 2
C10_Witness ==
    /\ resp.kind = "submit" /\ resp.fills # <<>>
    /\ orders[resp.id].quantity = 2
    /\ resp.tx.orders[resp.id].filled_quantity = 1
    /\ resp.tx.orders[resp.fills[1].counter].quantity = 1
    /\ resp.tx.orders[resp.fills[1].counter].filled_quantity = 1

\* C15: every step that takes an order from pending or partial_filled to
\* cancelled reduces the owner's frozen_balance in the reserved currency by
\* exactly the order's remaining reservation and leaves balance unchanged.
C15_CancelReleasesReservation ==
    [][\A i \in 1..Len(orders) :
          (orders[i].status \in LiveStatus /\ orders'[i].status = "cancelled")
          => LET o == orders[i]
                 c == ReservedCurrency(o)
             IN  /\ wallets'[o.user][c].frozen_balance
                       = wallets[o.user][c].frozen_balance - OpenReservation(o, c)
                 /\ wallets'[o.user][c].balance = wallets[o.user][c].balance]_vars

\* C16: cancelling an order that is filled, cancelled or rejected returns
\* without an error and leaves the order and every wallet unchanged.
C16_CancelIdempotent ==
    [][\A id \in 1..Len(orders) :
          (orders[id].status \notin LiveStatus /\ Cancel(id))
          => /\ resp'.err = "none"
             /\ orders' = orders /\ wallets' = wallets]_vars

\* C16 as amended: cancelling an order that is filled, cancelled or rejected
\* is refused with a ValidationError (answered 400) and leaves the orders,
\* the wallets, the trades and the journal unchanged.
C16_CancelTerminalRefused ==
    [][\A id \in 1..Len(orders) :
          (orders[id].status \notin LiveStatus /\ Cancel(id))
          => /\ resp'.err = "ValidationError"
             /\ orders' = orders /\ wallets' = wallets
             /\ trades' = trades /\ transactions' = transactions]_vars

\* a cancel of a rejected order, the owner having funds frozen, was refused
C16_Witness ==
    /\ resp.kind = "cancel" /\ resp.err = "ValidationError"
    /\ \A i \in 1..Len(orders) : orders[i].status \notin LiveStatus
    /\ \E i \in 1..Len(orders) :
          /\ orders[i].status = "rejected"
          /\ wallets[orders[i].user][ReservedCurrency(orders[i])].frozen_balance > 0

\* the reservation a request asks for, where place_order computes one: the
\* lookup of a market buy's estimated price and the product with a missing
\* price raise before any amount exists
Reserves(d) == d.side = "sell" \/ (d.order_type # "market" /\ d.price # NoPrice)

Reservation(d) == IF d.side = "sell" THEN d.quantity ELSE d.quantity * d.price

\* C17: a submit whose reservation exceeds balance - frozen_balance of the
\* wallet fails with the insufficient-funds ValidationError, and a submit
\* that fails creates no order, changes no wallet and writes no journal entry.
C17_InsufficientFundsNoChange ==
    [][/\ \A u \in Users, d \in OrderInputs :
             LET w == wallets[u][ReservedCurrency(d)]
             IN  (/\ Reserves(d)
                  /\ Reservation(d) > w.balance - w.frozen_balance
                  /\ Submit(u, d.trading_pair, d.order_type, d.side, d.quantity,
                            d.price, DefaultTimeInForce))
                 => resp'.err = "ValidationError"
       /\ (resp'.kind = "submit" /\ resp'.err # "none")
             => /\ orders' = orders /\ wallets' = wallets
                /\ trades' = trades /\ transactions' = transactions]_vars

\* a submit was refused for insufficient funds although the wallet's balance
\* alone would cover it: part of the balance is frozen
C17_Witness ==
    /\ resp.kind = "submit" /\ resp.err = "ValidationError"
    /\ \E u \in Users, c \in Currencies :
          /\ wallets[u][c].frozen_balance > 0
          /\ wallets[u][c].frozen_balance < wallets[u][c].balance

\* C18: no stored order is a limit order without a price (submit rejects it
\* with no order created and no funds frozen).
C18_LimitNeedsPrice ==
    \A i \in 1..Len(orders) :
        ~(orders[i].order_type = "limit" /\ orders[i].price = NoPrice)

C20_MarketRemainderUnfrozen ==
    resp.kind = "submit" /\ resp.id # 0
    /\ orders[resp.id].order_type = "market"
    /\ orders[resp.id].filled_quantity < orders[resp.id].quantity
    => LET o == orders[resp.id]
           c == ReservedCurrency(o)
       IN  /\ wallets[o.user][c].frozen_balance = resp.pre[o.user][c].frozen_balance
           /\ o.status = (IF o.filled_quantity > 0 THEN "partial_filled"
                          ELSE "cancelled")

RECURSIVE FilledBy(_, _)
\* the quantity that the fills of one match took from the resting order c
FilledBy(fills, c) ==
    IF fills = <<>> THEN 0
    ELSE (IF Head(fills).counter = c THEN Head(fills).quantity ELSE 0)
         + FilledBy(Tail(fills), c)

\* C11: two submits whose matches ran at the same time did not both
\* consume the same resting quantity: together their fills took from a
\* resting order no more than it had left.
C11_NoDoubleConsumption ==
    \A p \in Procs, r \in Procs :
        (/\ p # r /\ procs[p].pc = "done" /\ procs[r].pc = "done"
         /\ procs[r].id \in procs[p].overlap)
        => \A c \in 1..Len(orders) :
              FilledBy(procs[p].fills, c) + FilledBy(procs[r].fills, c)
                 <= orders[c].quantity - orders[c].filled_quantity

\* C12: placements on one wallet serialize: each placement that commits
\* raises the stored frozen_balance of its wallet by its reservation (no
\* update is lost), and the reservations together stay within the balance.
C12_WalletSerialized ==
    [][\A p \in Procs :
          (procs[p].pc = "placing" /\ procs'[p].pc = "placed")
          => LET u == procs[p].user
                 c == ReservedCurrency(procs[p].d)
             IN  /\ wallets'[u][c].frozen_balance
                       = wallets[u][c].frozen_balance + Reservation(procs[p].d)
                 /\ wallets'[u][c].frozen_balance <= wallets'[u][c].balance]_vars

\* C13: when the match of a buy of u1 on one pair ends while a match of u1
\* on the other pair runs, the stored quote wallet of u1 is the wallet
\* before that step with the fills of the ending match applied (balance and
\* frozen_balance lowered by the value bought), so that the two matches
\* leave it as their fills applied one after the other would.
C13_FillsSerializeOnWallet ==
    [][\A p \in Procs :
          (/\ procs[p].pc = "matching" /\ procs'[p].pc = "done"
           /\ procs[p].order.side = "buy"
           /\ \E i \in procs'[p].overlap :
                 /\ orders[i].trading_pair # procs[p].order.trading_pair
                 /\ orders[i].user = procs[p].order.user)
          => LET u == procs[p].order.user
                 c == quote_currency(procs[p].order.trading_pair)
                 fills == procs'[p].fills
                 value == IF fills = <<>> THEN 0
                          ELSE fills[1].quantity * fills[1].price
             IN  /\ Len(fills) <= 1
                 /\ wallets'[u][c].balance = wallets[u][c].balance - value
                 /\ wallets'[u][c].frozen_balance
                       = wallets[u][c].frozen_balance - value]_vars

\* C14: a match never applies a fill to a resting order that a cancel,
\* running since the match read the order, has cancelled and refunded: the
\* quantity refunded plus the quantity filled stays within the quantity.
C14_CancelSerializedWithMatch ==
    [][\A p \in Procs :
          (procs[p].pc = "matching" /\ procs'[p].pc = "done")
          => \A c \in 1..Len(orders) :
                orders[c].status = "cancelled"
                => FilledBy(procs'[p].fills, c)
                      + (orders[c].quantity - orders[c].filled_quantity)
                         <= orders[c].quantity]_vars

\* C21: no fill leaves a wallet with a negative frozen_balance or a negative
\* balance: a fill whose amount exceeds what the paying wallet has frozen
\* fails, so neither the stored wallets nor the wallets as the match
\* transaction of a submit left them hold a negative amount.
C21_FillWithinFrozen ==
    \A u \in Users, c \in Currencies :
        /\ wallets[u][c].frozen_balance >= 0 /\ wallets[u][c].balance >= 0
        /\ resp.tx.wallets[u][c].frozen_balance >= 0
        /\ resp.tx.wallets[u][c].balance >= 0

RECURSIVE OpenQuantity(_, _, _)
\* the quantity the resting orders 1..n offer the aggressor o
OpenQuantity(os, o, n) ==
    IF n = 0 THEN 0
    ELSE (IF Crosses(os, o, n) THEN os[n].quantity - os[n].filled_quantity ELSE 0)
         + OpenQuantity(os, o, n - 1)

\* C22: a limit order submitted with time_in_force FOK whose quantity the
\* eligible resting orders cannot fill completely ends rejected: no Trade is
\* created and every wallet and every resting order is as before the submit.
C22_FokRejected ==
    [][(/\ resp'.kind = "submit" /\ resp'.id # 0
        /\ resp'.time_in_force = "FOK"
        /\ orders'[resp'.id].order_type = "limit"
        /\ OpenQuantity(orders, orders'[resp'.id], Len(orders))
              < orders'[resp'.id].quantity)
       => /\ orders'[resp'.id].status = "rejected"
          /\ trades' = trades /\ wallets' = wallets
          /\ \A c \in 1..Len(orders) : orders'[c] = orders[c]]_vars

\* C23: a limit order submitted with time_in_force IOC does not rest: when
\* its submit has returned it is in no live status, and when nothing of it
\* was filled the wallet it reserved from has as much frozen as before.
C23_IocNeverRests ==
    [][(/\ resp'.kind = "submit" /\ resp'.id # 0
        /\ resp'.time_in_force = "IOC"
        /\ orders'[resp'.id].order_type = "limit")
       => LET o == orders'[resp'.id]
              c == ReservedCurrency(o)
          IN  /\ o.status \notin LiveStatus
              /\ o.filled_quantity = 0 =>
                    wallets'[o.user][c].frozen_balance
                       = wallets[o.user][c].frozen_balance]_vars

\* C24: between requests the best bid of a pair is strictly below its best
\* ask: no resting limit buy is priced at or above a resting limit sell of
\* the same pair (a buy that would tie or cross only its submitter's own
\* resting sell is rejected and does not rest).
C24_BookNotCrossed ==
    \A b \in 1..Len(orders), a \in 1..Len(orders) :
        (/\ orders[b].order_type = "limit" /\ orders[a].order_type = "limit"
         /\ orders[b].side = "buy" /\ orders[a].side = "sell"
         /\ orders[b].trading_pair = orders[a].trading_pair
         /\ orders[b].status \in LiveStatus /\ orders[a].status \in LiveStatus
         /\ orders[b].price # NoPrice /\ orders[a].price # NoPrice)
        => orders[b].price < orders[a].price

\* C25: every journal entry written by submit and by cancel has
\* balance_after - balance_before = amount.
C25_JournalIntegrity ==
    \A t \in transactions : t.balance_after - t.balance_before = t.amount

\* C26: on every fill a fee at the pair's taker rate (aggressor) and maker
\* rate (resting order) is debited: in the match transaction each
\* participant's quote balance is below the settlement without fees by
\* rate x price x quantity, and the orders record the fee.
C26_FeesCharged ==
    (resp.kind = "submit" /\ Len(resp.fills) = 1)
    => LET f == resp.fills[1]
           o == resp.tx.orders[f.order]
           c == resp.tx.orders[f.counter]
           q == quote_currency(o.trading_pair)
           value == f.quantity * f.price
           free(x) == IF x.side = "buy" THEN resp.pre[x.user][q].balance - value
                      ELSE resp.pre[x.user][q].balance + value
       IN  /\ FeeScale * (free(o) - resp.tx.wallets[o.user][q].balance)
                 = taker_fee(o.trading_pair) * value
           /\ FeeScale * (free(c) - resp.tx.wallets[c.user][q].balance)
                 = maker_fee(c.trading_pair) * value
           /\ o.total_fee > 0 /\ c.total_fee > 0

\* C27: when the match of a submit raises an error, what the match changed
\* is rolled back (no Trade is stored, every wallet has its balance of
\* before and every other order is as it was) and the submitted order ends
\* in status rejected.
C27_FailedMatchRejects ==
    [][(resp'.kind = "submit" /\ resp'.id # 0 /\ resp'.matchErr # "none")
       => /\ trades' = trades
          /\ \A u \in Users, c \in Currencies :
                wallets'[u][c].balance = wallets[u][c].balance
          /\ \A c \in 1..Len(orders) : orders'[c] = orders[c]
          /\ orders'[resp'.id].status = "rejected"]_vars

\* C28: the status of the order in the response of a submit (the order
\* object the request holds when it builds the response) is the status
\* stored for that order when the request completes, also when the match
\* failed.
C28_ResponseIsStored ==
    (resp.kind = "submit" /\ resp.id # 0)
    => resp.tx.orders[resp.id].status = orders[resp.id].status

\* C29: a wallet's balance and frozen_balance change only in a submit (with
\* its fills) or a cancel: no other request sets them.
C29_WalletsLedgerOnly ==
    [][wallets' # wallets => resp'.kind \in {"submit", "cancel"}]_vars

\* C30: the status, the quantity and the price of an order change only in
\* a submit (with its match) or a cancel: no other request edits an order.
C30_OrdersEngineOnly ==
    [][(\E i \in 1..Len(orders) :
           \/ orders'[i].status # orders[i].status
           \/ orders'[i].quantity # orders[i].quantity
           \/ orders'[i].price # orders[i].price)
       => resp'.kind \in {"submit", "cancel", "cancel_post"}]_vars

\* C31: the first frame a socket of an order-book group sends its client is
\* the snapshot (orderbook_data) and every later frame is an
\* orderbook_update; the updates the group has carried since the channel
\* joined it, those from before the snapshot was sent included, are the
\* updates sent after the snapshot followed by those still in the channel,
\* in the order they were published.
C31_SnapshotBeforeUpdates ==
    LET c == feed.consumer
        n == Len(c.sent)
        rest == SubSeq(c.sent, 2, n) \o c.queue
    IN  /\ n >= 1 => c.sent[1].type = "orderbook_data"
        /\ \A k \in 2..n : c.sent[k].type = "orderbook_update"
        /\ c.pc # "closed" =>
              /\ Len(rest) = Published(c.pair) - c.joined
              /\ \A k \in 1..Len(rest) :
                    /\ rest[k].type = "orderbook_update"
                    /\ rest[k].data = c.joined + k

\* the socket has sent its snapshot and then two updates, the first of
\* them published after the channel joined and before the snapshot was read
C31_Witness ==
    /\ feed.consumer.pc = "open"
    /\ Len(feed.consumer.sent) >= 3
    /\ feed.consumer.sent[2].data < feed.consumer.sent[1].data

\* C32: the generators leave a pair alone that a real order touched within
\* the last K ticks: whatever K >= 1 is, the step that directly follows the
\* submit of an order on a pair neither rewrites that pair's OrderBook or
\* MarketData rows nor publishes an update for it.
C32_SimulatorYieldsToOrders ==
    [][(resp.kind = "submit" /\ resp.id # 0)
       => LET pair == orders[resp.id].trading_pair
          IN  /\ feed'.order_book[pair] = feed.order_book[pair]
              /\ feed'.market_data[pair] = feed.market_data[pair]
              /\ ~(feed.pc = "publish" /\ feed.pair = pair /\ feed'.pc = "idle")]_vars

\* C33: a step of the order-book generator or of the market-data generator
\* changes no wallet, no order, no trade and no journal entry.
C33_SimulatorNoLedgerEffect ==
    [][feed' # feed
       => /\ orders' = orders /\ wallets' = wallets
          /\ trades' = trades /\ transactions' = transactions]_vars

\* both generators have written the rows of a pair, and the order-book
\* generator is about to publish for it, while an order of that pair rests
\* with its reservation frozen
C33_Witness ==
    /\ feed.pc = "publish"
    /\ feed.market_data[feed.pair] > 0
    /\ \E i \in 1..Len(orders) :
          /\ orders[i].trading_pair = feed.pair
          /\ orders[i].status = "pending"
          /\ wallets[orders[i].user][ReservedCurrency(orders[i])].frozen_balance > 0

RECURSIVE SumFilled(_, _)
\* filled_quantity summed over the orders 1..n
SumFilled(os, n) ==
    IF n = 0 THEN 0 ELSE os[n].filled_quantity + SumFilled(os, n - 1)

RECURSIVE SumTraded(_, _)
\* quantity summed over the trades 1..n
SumTraded(ts, n) ==
    IF n = 0 THEN 0 ELSE ts[n].quantity + SumTraded(ts, n - 1)

\* C34: execute_order is all or nothing: when the match of a submit raises,
\* no Trade, no fill of any order and no balance change of that match is
\* stored (the order is stored as placed, with only its reservation
\* frozen), and in every stored state each Trade's quantity is filled on
\* both of its orders and nothing else is filled.
C34_MatchAllOrNothing ==
    [][/\ (resp'.kind = "submit" /\ resp'.id # 0 /\ resp'.matchErr # "none")
          => /\ trades' = trades
             /\ \A c \in 1..Len(orders) : orders'[c] = orders[c]
             /\ orders'[resp'.id].filled_quantity = 0
             /\ orders'[resp'.id].status = "pending"
             /\ \A u \in Users, c \in Currencies :
                   /\ wallets'[u][c].balance = wallets[u][c].balance
                   /\ wallets'[u][c].frozen_balance
                         = wallets[u][c].frozen_balance
                           + OpenReservation(orders'[resp'.id], c)
                             * (IF u = orders'[resp'.id].user THEN 1 ELSE 0)
       /\ SumFilled(orders', Len(orders')) = 2 * SumTraded(trades', Len(trades'))]_vars

\* the match of a submit filled both orders in its transaction and then
\* raised; the stored orders have nothing filled
C34_Witness ==
    /\ resp.kind = "submit" /\ resp.id # 0 /\ resp.matchErr = "TypeError"
    /\ resp.fills # <<>>
    /\ resp.tx.orders[resp.id].filled_quantity > 0
    /\ resp.tx.orders[resp.fills[1].counter].filled_quantity > 0
    /\ orders[resp.id].filled_quantity = 0
    /\ orders[resp.fills[1].counter].filled_quantity = 0

\* C35: in every stored state an order's status agrees with its fills: a
\* filled order has filled_quantity >= quantity, a pending order has
\* filled_quantity = 0, a partial_filled order has 0 < filled_quantity <
\* quantity, and remaining_quantity = quantity - filled_quantity.
C35_StatusAgreesWithFills ==
    \A i \in 1..Len(orders) :
        LET o == orders[i]
        IN  /\ o.status = "filled" => o.filled_quantity >= o.quantity
            /\ o.status = "pending" => o.filled_quantity = 0
            /\ o.status = "partial_filled" =>
                  (0 < o.filled_quantity /\ o.filled_quantity < o.quantity)
            /\ o.remaining_quantity = o.quantity - o.filled_quantity
====
